---------------------------- MODULE Spec2Model ----------------------------
(***************************************************************************)
(* A model of jemi (src/jemi.c, src/jemi.h): a fixed-capacity arena of     *)
(* JSON nodes, the operations that build and copy trees of them, and the   *)
(* resumable emitter that serialises a tree into a bounded sink.           *)
(*                                                                         *)
(* Pointers are numbers: NULL is 0, a node pointer is the 1-based index of *)
(* its slot in the caller's pool (&pool[i] is i + 1), a `const char *` is  *)
(* the 1-based index of a caller-owned string in StrTab.  The anonymous    *)
(* union of a node (integer / number / string / children) is one storage   *)
(* cell: `tag` names the member written last ("zero" after memset) and     *)
(* `val` holds its value.                                                  *)
(***************************************************************************)
EXTENDS Integers, Sequences, FiniteSets, TLC

NULL == 0

\* ------------------------------------------------------------------ bounds
MaxPool == 2        \* largest pool_size handed to jemi_reset
MaxArgs == 2        \* most elements handed to a variadic constructor
Batches == 3        \* batches of one element a generator hands over
FlatNodes == 3      \* nodes of an emitted tree of depth one
NestNodes == 4      \* nodes of an emitted tree of depth two
BufLenMax == 65535  \* the largest bufLen, a uint16_t: no text of the model fills it
Caps == {5, 9, BufLenMax}      \* the bufLen of the caller's sink
CopyNodes == 3      \* nodes of a tree handed to jemi_copy
CopyFree == 3       \* slots free when the copying begins
GenIds == {1, 2}    \* the generators (ObjUpdate callbacks) of the caller

\* caller-owned, null-terminated strings; a string pointer indexes this table
StrTab ==
    << "a", "b", "x", "y",
       "k234567890123456789",              \* a key of 19 characters
       "s234567890123456789012345678" >>   \* a string of 28 characters
KeyArgs == {NULL, 1}          \* keys the caller passes: none, "a"
StrArgs == {3}                \* string payloads the caller constructs: "x"
IntArgs == {1}                \* integer payloads the caller constructs
NumArgs == {1500000}          \* doubles the caller constructs, in millionths
StrUpdates == {3, 4}          \* what the caller hands to jemi_string_set
IntUpdates == {1, 2}          \* what the caller hands to jemi_integer_set
NumUpdates == {1500000, 2000000}  \* what the caller hands to jemi_float_set
FirstGenerated == 2           \* the generators hand over 2, 3, 4, ...

VARIABLES
    pool,       \* the caller's jemi_node_t pool[pool_size], slots 1..pool_size
    freelist,   \* s_jemi_freelist
    cap,        \* pool_size of the last jemi_reset
    nalloc,     \* successful jemi_alloc calls since the last jemi_reset
    last,       \* what the last call did and returned
    copied,     \* the last jemi_copy: the node handed in, the node returned
    halted,     \* the process was stopped by a fault
    sink,       \* the caller's jemi_out_buf_t with the text its writer stored
    left,       \* `static int left` of emit_aux
    gen,        \* the caller's generators (ObjUpdate callbacks): their cursors
    pc,         \* where the caller stands with jemi_emit
    cur,        \* next_node of jemi_emit; the node returned once it returned
    top,        \* the root handed to the first jemi_emit call
    out,        \* the chunks the caller has taken out of the sink so far
    steps,      \* emit_aux calls made by the last jemi_emit call
    att,        \* the fragment attempts of the last jemi_emit call, in order
    log,        \* the fragments committed to the sink since the emission began
    rej,        \* the sink has rejected a fragment since the emission began
    ref         \* what one jemi_emit call with an unlimited sink writes

arena == << pool, freelist, cap, nalloc, last, copied, halted >>
emission == << sink, left, gen, pc, cur, top, out, steps, att, log, rej, ref >>
vars == << arena, emission >>

\* ------------------------------------------------------------------- nodes
\* a slot as memset(pool, 0, ...) leaves it: JEMI_NULL and JEMI_NODE_UNUSED
\* are the enumerators with value 0
ZeroNode ==
    [sibling |-> NULL, parent |-> NULL, type |-> "JEMI_NULL",
     state |-> "JEMI_NODE_UNUSED", key |-> NULL, tag |-> "zero", val |-> 0,
     update |-> NULL]

\* the heap the library works on: the pool, the freelist head, and the count
\* of successful allocations; `deref` records that a member of the NULL node
\* was read or written, `given` what jemi_alloc has returned since the last
\* jemi_reset
Heap(p, f, k) ==
    [pool |-> p, free |-> f, nalloc |-> k, deref |-> FALSE, given |-> << >>]

Slots(h) == DOMAIN h.pool

RECURSIVE ChainFrom(_, _, _)
\* the nodes on the sibling chain that starts at n (fuel bounds a cyclic chain)
ChainFrom(p, n, fuel) ==
    IF n = NULL \/ fuel = 0 THEN << >>
    ELSE << n >> \o ChainFrom(p, p[n].sibling, fuel - 1)

Chain(p, n) == ChainFrom(p, n, Cardinality(DOMAIN p))

SeqSet(s) == { s[i] : i \in DOMAIN s }

FreeSet(p, f) == SeqSet(Chain(p, f))

\* size_t jemi_available(void)
jemi_available(p, f) == Len(Chain(p, f))

\* void jemi_reset(jemi_node_t *pool, size_t pool_size)
jemi_reset(n) ==
    Heap([i \in 1..n |-> [ZeroNode EXCEPT !.sibling = i - 1]], n, 0)

\* what the caller of jemi_alloc gets: the node asked for of kind type, as
\* jemi_alloc returns it
Given(h, type, node) ==
    [h EXCEPT !.given = Append(@, [node |-> node, type |-> type,
                                   rec |-> h.pool[node]])]

jemi_alloc_nopop(h, type) ==
    LET node == h.free IN
    IF node = NULL THEN [h |-> h, node |-> NULL]
    ELSE [h |-> Given([h EXCEPT !.pool[node].sibling = NULL,
                                !.pool[node].type = type,
                                !.pool[node].state = "JEMI_NODE_UNUSED",
                                !.nalloc = @ + 1], type, node),
          node |-> node]

jemi_alloc_linked(h, type) ==
    LET node == h.free IN
    IF node = NULL THEN [h |-> h, node |-> NULL]
    ELSE [h |-> Given([h EXCEPT !.free = h.pool[node].sibling,
                                !.pool[node].type = type,
                                !.pool[node].state = "JEMI_NODE_UNUSED",
                                !.nalloc = @ + 1], type, node),
          node |-> node]

\* static jemi_node_t *jemi_alloc(jemi_type_t type)
jemi_alloc(h, type) ==
    LET node == h.free IN
    IF node = NULL THEN [h |-> h, node |-> NULL]
    ELSE [h |-> Given([h EXCEPT !.free = h.pool[node].sibling,
                                !.pool[node].sibling = NULL,
                                !.pool[node].type = type,
                                !.pool[node].state = "JEMI_NODE_UNUSED",
                                !.nalloc = @ + 1], type, node),
          node |-> node]

\* node->member = v, where node may be NULL: the write to the NULL node is
\* undefined behaviour, recorded in deref
SetField(h, node, fld, v) ==
    IF node = NULL THEN [h EXCEPT !.deref = TRUE]
    ELSE [h EXCEPT !.pool[node][fld] = v]

\* node->integer / number / string / children = v
SetUnion(h, node, member, v) ==
    IF node = NULL THEN [h EXCEPT !.deref = TRUE]
    ELSE [h EXCEPT !.pool[node].tag = member, !.pool[node].val = v]

\* jemi_node_t *jemi_integer(const char *key, int integer)
jemi_integer(h, key, integer) ==
    LET a == jemi_alloc(h, "JEMI_INTEGER") IN
    IF a.node # NULL
    THEN [h |-> SetUnion(SetField(a.h, a.node, "key", key),
                         a.node, "integer", integer),
          node |-> a.node]
    ELSE a

\* jemi_node_t *jemi_string(const char *key, const char *string)
jemi_string(h, key, string) ==
    LET a == jemi_alloc(h, "JEMI_STRING") IN
    IF a.node # NULL
    THEN [h |-> SetUnion(SetField(a.h, a.node, "key", key),
                         a.node, "string", string),
          node |-> a.node]
    ELSE a

\* jemi_node_t *jemi_true(void)
jemi_true(h) == jemi_alloc(h, "JEMI_TRUE")

\* jemi_node_t *jemi_false(void)
jemi_false(h) == jemi_alloc(h, "JEMI_FALSE")

\* jemi_node_t *jemi_null(void)
jemi_null(h) == jemi_alloc(h, "JEMI_NULL")

\* jemi_node_t *jemi_bool(const char *key, bool boolean)
jemi_bool(h, key, boolean) ==
    LET a == IF boolean THEN jemi_true(h) ELSE jemi_false(h) IN
    [h |-> SetField(a.h, a.node, "key", key), node |-> a.node]

\* jemi_node_t *jemi_float(double value): declared in jemi.h, not defined in
\* jemi.c; allocate plus payload, as the integer constructor does
jemi_float(h, value) ==
    LET a == jemi_alloc(h, "JEMI_FLOAT") IN
    IF a.node # NULL
    THEN [h |-> SetUnion(a.h, a.node, "number", value), node |-> a.node]
    ELSE a

RECURSIVE LinkElements(_, _, _, _)
\* the while loop of the container constructors over the variadic elements:
\* element->sibling = va_arg(...); element->parent = root
LinkElements(h, root, elems, i) ==
    IF i > Len(elems) THEN h
    ELSE LET nxt == IF i < Len(elems) THEN elems[i + 1] ELSE NULL
             h1 == SetField(h, elems[i], "sibling", nxt)
             h2 == [h1 EXCEPT !.pool[elems[i]].parent = root]
         IN LinkElements(h2, root, elems, i + 1)

FirstOf(elems) == IF Len(elems) = 0 THEN NULL ELSE elems[1]

\* the body shared by jemi_array, jemi_array_updateable and jemi_object
Container(h, type, key, update, elems) ==
    LET a  == jemi_alloc(h, type)
        h1 == SetField(a.h, a.node, "key", key)
        h2 == IF update = NULL THEN h1
              ELSE SetField(h1, a.node, "update", update)
        h3 == SetUnion(h2, a.node, "children", FirstOf(elems))
    IN [h |-> LinkElements(h3, a.node, elems, 1), node |-> a.node]

\* jemi_node_t *jemi_array(const char *key, jemi_node_t *element, ...)
jemi_array(h, key, elems) == Container(h, "JEMI_ARRAY", key, NULL, elems)

\* jemi_node_t *jemi_array_updateable(const char *key, ObjUpdate update,
\*                                    uint8_t length, jemi_node_t *element, ...)
jemi_array_updateable(h, key, update, elems) ==
    Container(h, "JEMI_ARRAY", key, update, elems)

\* jemi_node_t *jemi_object(const char *key, jemi_node_t *element, ...)
jemi_object(h, key, elems) == Container(h, "JEMI_OBJECT", key, NULL, elems)

RECURSIVE LinkList(_, _, _)
LinkList(h, elems, i) ==
    IF i > Len(elems) THEN h
    ELSE LinkList(SetField(h, elems[i], "sibling",
                           IF i < Len(elems) THEN elems[i + 1] ELSE NULL),
                  elems, i + 1)

\* jemi_node_t *jemi_list(jemi_node_t *element, ...)
jemi_list(h, elems) == [h |-> LinkList(h, elems, 1), node |-> FirstOf(elems)]


IsContainer(type) == type \in {"JEMI_ARRAY", "JEMI_OBJECT"}

\* node->children and the other members of the union, read back
Member(h, node) == h.pool[node].val

RECURSIVE jemi_copy(_, _)
RECURSIVE copy_node(_, _)
RECURSIVE CopyLoop(_, _, _, _)

copy_node_shallow(h, node) ==
    IF node = NULL THEN [h |-> h, node |-> NULL]
    ELSE LET type == h.pool[node].type
             a    == jemi_alloc(h, type)
         IN IF IsContainer(type)
            THEN [h |-> SetUnion(a.h, a.node, "children", Member(h, node)),
                  node |-> a.node]
            ELSE IF type = "JEMI_STRING"
            THEN [h |-> SetUnion(a.h, a.node, "string", Member(h, node)),
                  node |-> a.node]
            ELSE IF type = "JEMI_INTEGER"
            THEN [h |-> SetUnion(a.h, a.node, "integer", Member(h, node)),
                  node |-> a.node]
            ELSE a

\* static jemi_node_t *copy_node(jemi_node_t *node)
copy_node(h, node) ==
    IF node = NULL THEN [h |-> h, node |-> NULL]
    ELSE LET type == h.pool[node].type
             a    == jemi_alloc(h, type)
         IN IF IsContainer(type)
            THEN LET c == jemi_copy(a.h, Member(h, node))
                 IN [h |-> SetUnion(c.h, a.node, "children", c.node),
                     node |-> a.node]
            ELSE IF type = "JEMI_STRING"
            THEN [h |-> SetUnion(a.h, a.node, "string", Member(h, node)),
                  node |-> a.node]
            ELSE IF type = "JEMI_INTEGER"
            THEN [h |-> SetUnion(a.h, a.node, "integer", Member(h, node)),
                  node |-> a.node]
            ELSE a

\* the while loop of jemi_copy: copy root, chain the copy behind prev, go on
\* with root->sibling until copy_node returns NULL
CopyLoop(h, root, r2, prev) ==
    LET c == copy_node(h, root) IN
    IF c.node = NULL THEN [h |-> c.h, node |-> r2]
    ELSE LET h1 == IF prev # NULL
                   THEN SetField(c.h, prev, "sibling", c.node)
                   ELSE c.h
         IN CopyLoop(h1, c.h.pool[root].sibling,
                     IF r2 = NULL THEN c.node ELSE r2, c.node)

\* jemi_node_t *jemi_copy(jemi_node_t *root)
jemi_copy_single(h, root) == copy_node(h, root)

jemi_copy(h, root) == CopyLoop(h, root, NULL, NULL)

Last(s) == IF Len(s) = 0 THEN NULL ELSE s[Len(s)]

\* jemi_node_t *jemi_list_append(jemi_node_t *list, jemi_node_t *items)
jemi_list_append(h, list, items) ==
    IF list = NULL THEN [h |-> h, node |-> items]
    ELSE LET prev == Last(Chain(h.pool, list))
         IN [h |-> IF prev # NULL THEN SetField(h, prev, "sibling", items)
                   ELSE h,
             node |-> list]

\* the body shared by jemi_array_append and jemi_object_append
AppendTo(h, container, items) ==
    LET h1 == SetField(h, items, "parent", container) IN
    IF container # NULL
    THEN LET l == jemi_list_append(h1, Member(h1, container), items)
         IN [h |-> SetUnion(l.h, container, "children", l.node),
             node |-> container]
    ELSE [h |-> h1, node |-> container]

\* jemi_node_t *jemi_array_append(jemi_node_t *array, jemi_node_t *items)
jemi_array_append(h, array, items) == AppendTo(h, array, items)

\* jemi_node_t *jemi_object_append(jemi_node_t *object, jemi_node_t *items)
jemi_object_append(h, object, items) == AppendTo(h, object, items)

\* jemi_node_t *jemi_float_set(jemi_node_t *node, double number)
jemi_float_set(h, node, number) ==
    [h |-> IF node # NULL THEN SetUnion(h, node, "number", number) ELSE h,
     node |-> node]

\* jemi_node_t *jemi_integer_set(jemi_node_t *node, int64_t integer)
\* (every integer of the model fits an int, so the narrowing keeps the value)
jemi_integer_set(h, node, integer) ==
    [h |-> IF node # NULL THEN SetUnion(h, node, "integer", integer)
           ELSE h,
     node |-> node]

\* jemi_node_t *jemi_string_set(jemi_node_t *node, const char *string)
jemi_string_set(h, node, string) ==
    [h |-> IF node # NULL THEN SetUnion(h, node, "string", string) ELSE h,
     node |-> node]

\* jemi_node_t *jemi_bool_set(jemi_node_t *node, bool boolean)
jemi_bool_set(h, node, boolean) ==
    [h |-> IF node # NULL
           THEN SetField(h, node, "type",
                         IF boolean THEN "JEMI_TRUE" ELSE "JEMI_FALSE")
           ELSE h,
     node |-> node]

RECURSIVE ReachFrom(_, _, _)
\* the nodes of the sibling chain that starts at n, with all their descendants
ReachFrom(p, n, fuel) ==
    IF n = NULL \/ fuel = 0 THEN {}
    ELSE {n} \cup ReachFrom(p, p[n].sibling, fuel - 1)
             \cup (IF IsContainer(p[n].type)
                   THEN ReachFrom(p, p[n].val, fuel - 1) ELSE {})

Reach(p, n) == ReachFrom(p, n, Cardinality(DOMAIN p))

\* n with its descendants, without the siblings that follow it
Subtree(p, n) ==
    IF n = NULL THEN {}
    ELSE {n} \cup (IF IsContainer(p[n].type) THEN Reach(p, p[n].val) ELSE {})


\* ---------------------------------------------------------------- emission
\* the enumerators of jemi_type_t and jemi_state_t, by value
TypeVal(t) ==
    CASE t = "JEMI_NULL" -> 0 [] t = "JEMI_OBJECT" -> 1 [] t = "JEMI_ARRAY" -> 2
      [] t = "JEMI_INTEGER" -> 3 [] t = "JEMI_FLOAT" -> 4
      [] t = "JEMI_STRING" -> 5 [] t = "JEMI_TRUE" -> 6 [] t = "JEMI_FALSE" -> 7

StateVal(st) ==
    CASE st = "JEMI_NODE_UNUSED" -> 0 [] st = "JEMI_CONTAINER_BEGUN" -> 1
      [] st = "JEMI_KEY_USED" -> 2 [] st = "JEMI_VAL_USED" -> 3
      [] st = "JEMI_CHILDREN_USED" -> 4 [] st = "JEMI_NODE_USED" -> 5

Min(a, b) == IF a < b THEN a ELSE b

\* snprintf(buf, size, ...): the text, cut to size - 1 characters
Snprintf(size, text) == SubSeq(text, 1, Min(Len(text), size - 1))

Digit(d) == SubSeq("0123456789", d + 1, d + 1)

RECURSIVE Digits(_)
Digits(n) == IF n < 10 THEN Digit(n) ELSE Digits(n \div 10) \o Digit(n % 10)

\* "%d"
Decimal(i) == IF i < 0 THEN "-" \o Digits(0 - i) ELSE Digits(i)

RECURSIVE ZeroPad(_, _)
ZeroPad(text, width) ==
    IF Len(text) >= width THEN text ELSE ZeroPad("0" \o text, width)

\* a double is held in millionths; (int)number truncates towards zero
Trunc(number) ==
    IF number < 0 THEN 0 - ((0 - number) \div 1000000)
    ELSE number \div 1000000

\* "%lf": six digits after the point
Fixed(number) ==
    LET a == IF number < 0 THEN 0 - number ELSE number IN
    (IF number < 0 THEN "-" ELSE "") \o Digits(a \div 1000000) \o "."
        \o ZeroPad(Digits(a % 1000000), 6)

\* the value text of a JEMI_FLOAT node
FloatText(number) ==
    LET i == Trunc(number) IN
    IF i * 1000000 = number THEN Decimal(i) ELSE Fixed(number)

\* "\"%s\":" of a key
KeyText(key) == "\"" \o StrTab[key] \o "\":"

\* (output->bufLen - 1) as the size_t it is compared with: 0 - 1 wraps to the
\* largest size_t, which no text of the model reaches
SizeMax == 2147483647
Limit(bufLen) == IF bufLen = 0 THEN SizeMax ELSE bufLen - 1

NUL == "NUL"

\* the caller's writer_fn(ch, output->buf): stores ch behind the text held so
\* far; the terminator ends the text and adds nothing to it (`nul` counts the
\* terminators stored, `end` is where the last one was stored, `after` the
\* characters stored behind a terminator)
writer_fn(snk, ch) ==
    IF ch = NUL THEN [snk EXCEPT !.nul = @ + 1, !.end = Len(snk.buf)]
    ELSE [snk EXCEPT !.buf = @ \o ch,
                     !.after = IF snk.nul > 0 THEN @ + 1 ELSE @]

RECURSIVE WriteChars(_, _, _)
\* while (*data) writer_fn(*data++, output->buf)
WriteChars(snk, data, i) ==
    IF i > Len(data) THEN snk
    ELSE WriteChars(writer_fn(snk, SubSeq(data, i, i)), data, i + 1)

emit_string_tight(m, data) ==
    IF (Len(m.sink.buf) + Len(data)) >= Limit(m.sink.bufLen)
    THEN [m |-> [m EXCEPT !.sink.full = TRUE], r |-> TRUE]
    ELSE [m |-> [m EXCEPT !.sink = WriteChars(m.sink, data, 1)], r |-> FALSE]

\* static bool emit_string(writer_fn, output, data): r is what it returns,
\* TRUE when the sink took nothing
emit_string(m, data) ==
    IF (Len(m.sink.buf) + Len(data)) > Limit(m.sink.bufLen)
    THEN [m |-> [m EXCEPT !.sink.full = TRUE], r |-> TRUE]
    ELSE [m |-> [m EXCEPT !.sink = WriteChars(m.sink, data, 1)], r |-> FALSE]

\* the record kept of one fragment attempt of node n: the text, whether the
\* sink took it, the sink and the node's progress before and after; of a
\* committed fragment the log keeps the text, `left` and the generators as the
\* fragment left them, and the children the automaton went into after it
Note(m0, m1, n, kind, data, ok) ==
    [m1 EXCEPT
       !.att = Append(@, [node |-> n, kind |-> kind, frag |-> data,
                          ok |-> ok,
                          buf0 |-> m0.sink.buf, buf1 |-> m1.sink.buf,
                          full1 |-> m1.sink.full,
                          st0 |-> m0.pool[n].state, st1 |-> m1.pool[n].state,
                          gen0 |-> m0.gen, gen1 |-> m1.gen]),
       !.log = IF ok
               THEN Append(@, [node |-> n, kind |-> kind, text |-> data,
                               left |-> m1.left, gen0 |-> m0.gen,
                               gen |-> m1.gen, into |-> NULL])
               ELSE @,
       !.rej = @ \/ ~ok]

\* if (!emit_string(writer_fn, output, data)) node->state = nextState;
Try(m, n, kind, data, nextState) ==
    LET e  == emit_string(m, data)
        m1 == IF e.r THEN e.m ELSE [e.m EXCEPT !.pool[n].state = nextState]
    IN Note(m, m1, n, kind, data, ~e.r)

\* if (JEMI_NODE_UNUSED == node->state) { key prefix, through a buffer of
\* size characters }
KeyStep(m, n, size) ==
    IF m.pool[n].state = "JEMI_NODE_UNUSED"
    THEN IF m.pool[n].key # NULL
         THEN Try(m, n, "key", Snprintf(size, KeyText(m.pool[n].key)),
                  "JEMI_KEY_USED")
         ELSE [m EXCEPT !.pool[n].state = "JEMI_KEY_USED"]
    ELSE m

\* if (JEMI_KEY_USED == node->state) { value text }
ValStep(m, n, text) ==
    IF m.pool[n].state = "JEMI_KEY_USED"
    THEN Try(m, n, "value", text, "JEMI_VAL_USED")
    ELSE m

CommaStep_always(m, n) ==
    IF m.pool[n].state = "JEMI_VAL_USED"
    THEN Try(m, n, "comma", ",", "JEMI_NODE_USED")
    ELSE m

\* if (JEMI_VAL_USED == node->state) { comma when a sibling follows }
CommaStep(m, n) ==
    IF m.pool[n].state = "JEMI_VAL_USED"
    THEN IF m.pool[n].sibling # NULL
         THEN Try(m, n, "comma", ",", "JEMI_NODE_USED")
         ELSE [m EXCEPT !.pool[n].state = "JEMI_NODE_USED"]
    ELSE m

\* if (JEMI_KEY_USED == node->state) { opening bracket }
OpenStep(m, n, bracket) ==
    IF m.pool[n].state = "JEMI_KEY_USED"
    THEN Try(m, n, "open", bracket, "JEMI_CONTAINER_BEGUN")
    ELSE m

\* the closing fragment: snprintf(buf, 3, "}," or "}")
CloseStep(m, n, bracket) ==
    IF m.pool[n].state = "JEMI_CHILDREN_USED"
    THEN Try(m, n, "close",
             Snprintf(3, IF m.pool[n].sibling # NULL THEN bracket \o ","
                         ELSE bracket),
             "JEMI_NODE_USED")
    ELSE m

NextNode_hasty(m, n) ==
    IF m.pool[n].sibling # NULL THEN m.pool[n].sibling
    ELSE IF m.pool[n].state # "JEMI_NODE_USED" THEN n
    ELSE IF m.pool[n].parent # NULL THEN m.pool[n].parent
    ELSE NULL

\* the end of emit_aux: the node again, its sibling, its parent, or NULL
NextNode(m, n) ==
    IF m.pool[n].state # "JEMI_NODE_USED" THEN n
    ELSE IF m.pool[n].sibling # NULL THEN m.pool[n].sibling
    ELSE IF m.pool[n].parent # NULL THEN m.pool[n].parent
    ELSE NULL

Finish(m, n) == [m |-> m, next |-> NextNode(m, n)]

\* the batches a generator has to hand over: generator 1 has Batches of
\* them, generator 2 is a source that has run dry
Supply(u) == IF u = 1 THEN Batches ELSE 0

\* the element in the slot, as new: every node of it JEMI_NODE_UNUSED
Renewed(p, element) ==
    [i \in DOMAIN p |->
        IF i \in Subtree(p, element)
        THEN [p[i] EXCEPT !.state = "JEMI_NODE_UNUSED"] ELSE p[i]]

\* a caller's generator (an ObjUpdate), called with node->children: while it
\* has batches left it hands over one fresh element in the slot it is given
\* (an integer with a new payload, a container as it was built; progress
\* JEMI_NODE_UNUSED, no sibling) and returns how many batches remain after
\* this one, as a uint8_t; `ret` keeps what its last call returned
Update(m, u, children) ==
    LET called == [m EXCEPT !.gen[u].calls = @ + 1, !.gen[u].ret = 0] IN
    IF children = NULL \/ m.gen[u].handed >= Supply(u)
    THEN [m |-> called, ret |-> 0]
    ELSE LET k  == m.gen[u].handed + 1
             m1 == IF m.pool[children].type = "JEMI_INTEGER"
                   THEN jemi_integer_set(called, children,
                                         FirstGenerated + k - 1).h
                   ELSE called
             m2 == [m1 EXCEPT !.pool = [Renewed(@, children)
                                          EXCEPT ![children].sibling = NULL],
                              !.gen[u].handed = k,
                              !.gen[u].ret = (Supply(u) - k) % 256]
         IN [m |-> m2, ret |-> (Supply(u) - k) % 256]

\* return node->children after the separator of a streaming array
Into(m, children) == [m EXCEPT !.log[Len(m.log)].into = children]

\* case JEMI_OBJECT
EmitObject(m, n) ==
    LET m1 == KeyStep(m, n, 22)
        m2 == OpenStep(m1, n, "{")
    IN IF m2.pool[n].state = "JEMI_CONTAINER_BEGUN"
       THEN [m |-> [m2 EXCEPT !.pool[n].state = "JEMI_CHILDREN_USED"],
             next |-> Member(m2, n)]
       ELSE Finish(CloseStep(m2, n, "}"), n)

\* case JEMI_ARRAY
EmitArray(m, n) ==
    LET m1 == KeyStep(m, n, 22)
        m2 == OpenStep(m1, n, "[")
    IN IF m2.pool[n].state = "JEMI_CONTAINER_BEGUN"
       THEN [m |-> [m2 EXCEPT !.pool[n].state = "JEMI_CHILDREN_USED"],
             next |-> Member(m2, n)]
       ELSE IF m2.pool[n].state = "JEMI_CHILDREN_USED"
               /\ m2.pool[n].update # NULL
       THEN IF m2.left # 0
            THEN LET e == emit_string(m2, ",") IN
                 IF e.r
                 THEN [m |-> Note(m2, e.m, n, "sep", ",", FALSE), next |-> n]
                 ELSE LET u  == Update(e.m, m2.pool[n].update, Member(e.m, n))
                          m3 == Note(m2, [u.m EXCEPT !.left = u.ret],
                                     n, "sep", ",", TRUE)
                      IN IF m3.left # -1
                         THEN [m |-> Into(m3, Member(m3, n)),
                               next |-> Member(m3, n)]
                         ELSE Finish(CloseStep(m3, n, "]"), n)
            ELSE Finish(CloseStep([m2 EXCEPT !.left = -1], n, "]"), n)
       ELSE Finish(CloseStep(m2, n, "]"), n)

EmitInteger_twostep(m, n) ==
    IF m.pool[n].state = "JEMI_VAL_USED" THEN Finish(CommaStep(m, n), n)
    ELSE Finish(ValStep(KeyStep(m, n, 22), n,
                        Snprintf(22, Decimal(Member(m, n)))), n)

\* case JEMI_INTEGER
EmitInteger(m, n) ==
    LET m1 == KeyStep(m, n, 22)
        m2 == ValStep(m1, n, Snprintf(22, Decimal(Member(m1, n))))
    IN Finish(CommaStep(m2, n), n)

\* case JEMI_STRING; when the union does not hold a string (the JEMI_FLOAT
\* case falls into this one) node->string is whatever the bytes of the other
\* member point at: the read faults, or yields the text g.text
StringCase(m, n, g) ==
    LET m1 == KeyStep(m, n, 30)
        m2 == IF m1.pool[n].state # "JEMI_KEY_USED" THEN m1
              ELSE IF m1.pool[n].tag = "string"
              THEN ValStep(m1, n,
                           Snprintf(30, "\"" \o StrTab[Member(m1, n)] \o "\""))
              ELSE IF g.crash THEN [m1 EXCEPT !.crash = TRUE]
              ELSE ValStep(m1, n, Snprintf(30, "\"" \o g.text \o "\""))
    IN Finish(CommaStep(m2, n), n)

\* case JEMI_FLOAT, which has no break and runs on into case JEMI_STRING
FloatCase(m, n, g) ==
    LET m1 == KeyStep(m, n, 22)
        m2 == ValStep(m1, n, Snprintf(22, FloatText(Member(m1, n))))
    IN StringCase(CommaStep(m2, n), n, g)

\* JEMI_TRUE == node->state ? "true" : "false"
BoolText(m, n) ==
    IF TypeVal("JEMI_TRUE") = StateVal(m.pool[n].state) THEN "true"
    ELSE "false"

\* case JEMI_TRUE: case JEMI_FALSE
EmitBool(m, n) ==
    LET m1 == KeyStep(m, n, 22)
        m2 == ValStep(m1, n, BoolText(m1, n))
    IN Finish(CommaStep(m2, n), n)

\* case JEMI_NULL
EmitNull(m, n) ==
    LET m1 == KeyStep(m, n, 22)
        m2 == ValStep(m1, n, "null")
    IN Finish(CommaStep(m2, n), n)

\* static jemi_node_t *emit_aux(node, writer_fn, output)
emit_aux(m, n, g) ==
    LET t == m.pool[n].type IN
    CASE t = "JEMI_OBJECT" -> EmitObject(m, n)
      [] t = "JEMI_ARRAY" -> EmitArray(m, n)
      [] t = "JEMI_INTEGER" -> EmitInteger(m, n)
      [] t = "JEMI_FLOAT" -> FloatCase(m, n, g)
      [] t = "JEMI_STRING" -> StringCase(m, n, g)
      [] t \in {"JEMI_TRUE", "JEMI_FALSE"} -> EmitBool(m, n)
      [] t = "JEMI_NULL" -> EmitNull(m, n)

RECURSIVE EmitLoop(_, _, _)
\* one more emit_aux call made by this jemi_emit call
Counted(r) == [m |-> [r.m EXCEPT !.steps = @ + 1], next |-> r.next]

\* while (NULL != next_node && false == output->full)
While(r, g) ==
    IF ~r.m.crash /\ r.next # NULL /\ ~r.m.sink.full
    THEN EmitLoop(r.m, r.next, g)
    ELSE r

\* do { next_node = emit_aux(next_node, writer_fn, output); } while (...)
EmitLoop(m, node, g) == While(Counted(emit_aux(m, node, g)), g)

Terminated_early(r) == [m |-> r.m, node |-> r.next]

\* writer_fn('\0', output->buf); return next_node;
Terminated(r) == [m |-> [r.m EXCEPT !.sink = writer_fn(@, NUL)], node |-> r.next]

\* jemi_node_t *jemi_emit(root, writer_fn, output)
jemi_emit(m, node, g) == Terminated(EmitLoop(m, node, g))

\* ------------------------------------------------------- the caller's view
Allocated(p, f) == DOMAIN p \ FreeSet(p, f)

\* no allocated node points at n as its sibling or as its first child
Unreferenced(p, f, n) ==
    \A m \in Allocated(p, f) :
        /\ p[m].sibling # n
        /\ ~(IsContainer(p[m].type) /\ p[m].val = n)

\* heads of disembodied lists: what jemi_list and the constructors return
ChainHeads(p, f) ==
    { n \in Allocated(p, f) : p[n].parent = NULL /\ Unreferenced(p, f, n) }

\* single nodes that belong to no list and no container yet
FreeRoots(p, f) == { n \in ChainHeads(p, f) : p[n].sibling = NULL }

RECURSIVE Arrangements(_, _)
\* the argument lists of at most n distinct nodes of S
Arrangements(S, n) ==
    IF n = 0 THEN { << >> }
    ELSE LET shorter == Arrangements(S, n - 1)
         IN shorter \cup
            UNION { { Append(s, x) : x \in S \ SeqSet(s) } :
                    s \in { t \in shorter : Len(t) = n - 1 } }

\* the record of a call: whether it creates nodes, the node handed to it
\* (jemi_copy and the setters), the node returned, whether the freelist was
\* empty when it was made, whether it dereferenced the NULL node, and what
\* jemi_alloc has returned since the last jemi_reset, this call included
NoCall == [creates |-> FALSE, arg |-> NULL, node |-> NULL,
           exhausted |-> FALSE, deref |-> FALSE, given |-> << >>]

NoCopy == [src |-> NULL, dst |-> NULL]

\* a jemi_out_buf_t of bufLen bytes that the caller has emptied
EmptySink(bufLen) ==
    [buf |-> "", bufLen |-> bufLen, full |-> FALSE, nul |-> 0, end |-> 0,
     after |-> 0]

\* the generators before their first call
FreshGen == [u \in GenIds |-> [handed |-> 0, calls |-> 0, ret |-> -1]]

\* nothing has been emitted yet; `left` has its initialiser
NotEmitting(node, text) ==
    /\ sink = EmptySink(0)
    /\ left = -1
    /\ gen = FreshGen
    /\ pc = "idle"
    /\ cur = NULL
    /\ top = node
    /\ out = ""
    /\ steps = 0
    /\ att = << >>
    /\ log = << >>
    /\ rej = FALSE
    /\ ref = text

\* the program before jemi_reset: s_jemi_freelist is a zeroed global
Init ==
    /\ pool = << >>
    /\ freelist = NULL
    /\ cap = 0
    /\ nalloc = 0
    /\ last = NoCall
    /\ copied = NoCopy
    /\ halted = FALSE
    /\ NotEmitting(NULL, "")

Here == [Heap(pool, freelist, nalloc) EXCEPT !.given = last.given]

\* a call returns with result r; a call that dereferenced the NULL node
\* either got away with it (the access to address 0 had no effect on the
\* pool) or was stopped by the fault
Return(creates, arg, r) ==
    LET call == [creates |-> creates, arg |-> arg, node |-> r.node,
                 exhausted |-> freelist = NULL, deref |-> r.h.deref,
                 given |-> last.given]
    IN \/ /\ pool' = r.h.pool
          /\ freelist' = r.h.free
          /\ nalloc' = r.h.nalloc
          /\ last' = [call EXCEPT !.given = r.h.given]
          /\ copied' = IF creates /\ arg # NULL
                       THEN [src |-> arg, dst |-> r.node] ELSE copied
          /\ UNCHANGED << cap, halted, emission >>
       \/ /\ r.h.deref
          /\ halted' = TRUE
          /\ last' = call
          /\ UNCHANGED << pool, freelist, cap, nalloc, copied, emission >>

Reset ==
    \E n \in 0..MaxPool :
        /\ ~halted
        /\ pool' = jemi_reset(n).pool
        /\ freelist' = jemi_reset(n).free
        /\ cap' = n
        /\ nalloc' = 0
        /\ last' = NoCall
        /\ copied' = NoCopy
        /\ UNCHANGED << halted, emission >>

Integer ==
    \E key \in KeyArgs, v \in IntArgs :
        ~halted /\ Return(TRUE, NULL, jemi_integer(Here, key, v))

String ==
    \E key \in KeyArgs, s \in StrArgs :
        ~halted /\ Return(TRUE, NULL, jemi_string(Here, key, s))

Bool ==
    \E key \in KeyArgs, b \in BOOLEAN :
        ~halted /\ Return(TRUE, NULL, jemi_bool(Here, key, b))

True == ~halted /\ Return(TRUE, NULL, jemi_true(Here))

False == ~halted /\ Return(TRUE, NULL, jemi_false(Here))

Null == ~halted /\ Return(TRUE, NULL, jemi_null(Here))

Float ==
    \E v \in NumArgs :
        ~halted /\ Return(TRUE, NULL, jemi_float(Here, v))

Array ==
    \E key \in KeyArgs,
       elems \in Arrangements(FreeRoots(pool, freelist), MaxArgs) :
        ~halted /\ Return(TRUE, NULL, jemi_array(Here, key, elems))

Object ==
    \E key \in KeyArgs,
       elems \in Arrangements(FreeRoots(pool, freelist), MaxArgs) :
        ~halted /\ Return(TRUE, NULL, jemi_object(Here, key, elems))

List ==
    \E elems \in Arrangements(FreeRoots(pool, freelist), MaxArgs) :
        /\ ~halted
        /\ Len(elems) > 0
        /\ Return(FALSE, NULL, jemi_list(Here, elems))

Copy ==
    \E root \in Allocated(pool, freelist) :
        ~halted /\ Return(TRUE, root, jemi_copy(Here, root))

ArrayAppend ==
    \E array \in Allocated(pool, freelist),
       items \in ChainHeads(pool, freelist) :
        /\ ~halted
        /\ pool[array].type = "JEMI_ARRAY"
        /\ array \notin Reach(pool, items)
        /\ Return(FALSE, array,
                  jemi_array_append(Here, array, items))

ObjectAppend ==
    \E object \in Allocated(pool, freelist),
       items \in ChainHeads(pool, freelist) :
        /\ ~halted
        /\ pool[object].type = "JEMI_OBJECT"
        /\ object \notin Reach(pool, items)
        /\ Return(FALSE, object,
                  jemi_object_append(Here, object, items))

ListAppend ==
    \E list \in ChainHeads(pool, freelist),
       items \in ChainHeads(pool, freelist) :
        /\ ~halted
        /\ list # items
        /\ Return(FALSE, list,
                  jemi_list_append(Here, list, items))

FloatSet ==
    \E node \in Allocated(pool, freelist), v \in NumUpdates :
        /\ ~halted
        /\ pool[node].type = "JEMI_FLOAT"
        /\ Return(FALSE, node, jemi_float_set(Here, node, v))

IntegerSet ==
    \E node \in Allocated(pool, freelist), v \in IntUpdates :
        /\ ~halted
        /\ pool[node].type = "JEMI_INTEGER"
        /\ Return(FALSE, node, jemi_integer_set(Here, node, v))

StringSet ==
    \E node \in Allocated(pool, freelist), s \in StrUpdates :
        /\ ~halted
        /\ pool[node].type = "JEMI_STRING"
        /\ Return(FALSE, node, jemi_string_set(Here, node, s))

BoolSet ==
    \E node \in Allocated(pool, freelist), b \in BOOLEAN :
        /\ ~halted
        /\ pool[node].type \in {"JEMI_TRUE", "JEMI_FALSE"}
        /\ Return(FALSE, node, jemi_bool_set(Here, node, b))

Next ==
    \/ Reset
    \/ Integer \/ String \/ Bool \/ True \/ False \/ Null
    \/ Array \/ Object
    \/ Copy

Spec == Init /\ [][Next]_vars


\* ------------------------------------------------------------ built trees
\* a tree as the caller writes it: nested constructor calls
Leaf(op, key, val) == [op |-> op, key |-> key, val |-> val, kids |-> << >>]
Cont(op, key, val, kids) == [op |-> op, key |-> key, val |-> val, kids |-> kids]

RECURSIVE Size(_)
RECURSIVE SizeAll(_, _)
SizeAll(kids, i) ==
    IF i > Len(kids) THEN 0 ELSE Size(kids[i]) + SizeAll(kids, i + 1)
Size(s) == 1 + SizeAll(s.kids, 1)

RECURSIVE Build(_, _)
RECURSIVE BuildAll(_, _, _)
\* the arguments of a variadic constructor, evaluated left to right
BuildAll(h, kids, i) ==
    IF i > Len(kids) THEN [h |-> h, nodes |-> << >>]
    ELSE LET b == Build(h, kids[i])
             r == BuildAll(b.h, kids, i + 1)
         IN [h |-> r.h, nodes |-> << b.node >> \o r.nodes]

\* the constructor call a shape stands for
Build(h, s) ==
    CASE s.op = "integer" -> jemi_integer(h, s.key, s.val)
      [] s.op = "string" -> jemi_string(h, s.key, s.val)
      [] s.op = "bool" -> jemi_bool(h, s.key, s.val = 1)
      [] s.op = "true" -> jemi_true(h)
      [] s.op = "false" -> jemi_false(h)
      [] s.op = "null" -> jemi_null(h)
      [] s.op = "float" -> jemi_float(h, s.val)
      [] s.op = "array" ->
            LET b == BuildAll(h, s.kids, 1) IN jemi_array(b.h, s.key, b.nodes)
      [] s.op = "object" ->
            LET b == BuildAll(h, s.kids, 1) IN jemi_object(b.h, s.key, b.nodes)
      [] s.op = "updateable" ->
            LET b == BuildAll(h, s.kids, 1)
            IN jemi_array_updateable(b.h, s.key, s.val, b.nodes)

RECURSIVE KidLists(_, _, _)
\* the lists of at most len shapes of S with at most n nodes in all
KidLists(S, len, n) ==
    IF len = 0 THEN { << >> }
    ELSE { << >> } \cup
         UNION { { << s >> \o t : t \in KidLists(S, len - 1, n - Size(s)) } :
                 s \in { x \in S : Size(x) <= n } }

RECURSIVE Shapes(_, _, _, _)
\* the trees of at most n nodes and depth d over the given leaves and
\* container heads (a head is a container shape without kids)
Shapes(leaves, heads, d, n) ==
    IF n <= 0 THEN {}
    ELSE IF d = 0 THEN leaves
    ELSE leaves \cup
         { [c EXCEPT !.kids = kids] :
             c \in heads,
             kids \in KidLists(Shapes(leaves, heads, d - 1, n - 1),
                               MaxArgs, n - 1) }


\* ------------------------------------------------------ emitting built trees
\* the leaves and container heads the emitted trees are made of
EmitLeaves ==
    { Leaf("integer", 1, 1), Leaf("integer", 2, 2), Leaf("integer", NULL, 1),
      Leaf("string", NULL, 3), Leaf("bool", NULL, 1), Leaf("false", NULL, 0),
      Leaf("null", NULL, 0), Leaf("float", NULL, 1500000) }

EmitHeads ==
    { Cont("array", NULL, 0, << >>), Cont("array", 1, 0, << >>),
      Cont("object", NULL, 0, << >>), Cont("object", 1, 0, << >>) }

NestLeaves == { Leaf("integer", NULL, 1), Leaf("integer", 2, 2) }
NestHeads == { Cont("array", NULL, 0, << >>), Cont("object", 1, 0, << >>) }

\* one streaming array with pre-built children, alone or inside a container
Streams ==
    { Cont("updateable", key, 1, kids) :
        key \in {NULL, 1},
        kids \in { << Leaf("integer", NULL, 1) >>,
                   << Leaf("integer", NULL, 1), Leaf("integer", NULL, 1) >> } }

StreamShapes ==
    Streams
    \cup { Cont("object", NULL, 0, << s, Leaf("integer", 2, 2) >>) :
             s \in { x \in Streams : x.key # NULL /\ Len(x.kids) = 1 } }
    \cup { Cont("array", NULL, 0, << Leaf("integer", NULL, 1), s >>) :
             s \in { x \in Streams : x.key = NULL /\ Len(x.kids) = 1 } }

EmitShapes ==
    Shapes(EmitLeaves, EmitHeads, 1, FlatNodes)
    \cup Shapes(NestLeaves, NestHeads, 2, NestNodes)
    \cup StreamShapes

\* no value of a double is a string: what reading node->string of a
\* JEMI_FLOAT node can do
Oracles ==
    { [crash |-> TRUE, text |-> ""], [crash |-> FALSE, text |-> ""],
      [crash |-> FALSE, text |-> "(null)"] }

\* the emission machine over the pool as it is now, with an emptied sink of
\* bufLen bytes
Machine(bufLen) ==
    [pool |-> pool, sink |-> EmptySink(bufLen), left |-> left, gen |-> gen,
     att |-> << >>, log |-> log, rej |-> rej, crash |-> FALSE, steps |-> 0,
     deref |-> FALSE]

\* the text of one jemi_emit call on a sink that takes everything
Whole(p, node) ==
    jemi_emit([pool |-> p, sink |-> EmptySink(BufLenMax), left |-> -1,
               gen |-> FreshGen, att |-> << >>, log |-> << >>, rej |-> FALSE,
               crash |-> FALSE, steps |-> 0, deref |-> FALSE],
              node, [crash |-> TRUE, text |-> ""]).m.sink.buf

InitEmit ==
    \E s \in EmitShapes :
        LET b == Build(jemi_reset(Size(s)), s) IN
        /\ pool = b.h.pool
        /\ freelist = b.h.free
        /\ cap = Size(s)
        /\ nalloc = b.h.nalloc
        /\ last = NoCall
        /\ copied = NoCopy
        /\ halted = FALSE
        /\ NotEmitting(b.node, Whole(b.h.pool, b.node))

\* jemi_emit has returned r: the caller's loop goes on with the node returned
\* unless the call faulted
Returned(r) ==
    IF r.m.crash
    THEN /\ halted' = TRUE
         /\ UNCHANGED << pool, freelist, cap, nalloc, last, copied >>
         /\ UNCHANGED << sink, left, gen, pc, cur, top, steps, att, log, rej,
                         ref >>
    ELSE /\ pool' = r.m.pool
         /\ sink' = r.m.sink
         /\ left' = r.m.left
         /\ gen' = r.m.gen
         /\ steps' = r.m.steps
         /\ att' = r.m.att
         /\ log' = r.m.log
         /\ rej' = r.m.rej
         /\ cur' = r.node
         /\ pc' = IF r.node = NULL THEN "done" ELSE "suspended"
         /\ UNCHANGED << freelist, cap, nalloc, last, copied, halted, top,
                         ref >>

\* one call of jemi_emit(node, writer_fn, &sink) from the caller's loop, the
\* sink emptied before it
Call(node, bufLen, g) == Returned(jemi_emit(Machine(bufLen), node, g))

\* the first call, on the root
Emit ==
    \E bufLen \in Caps, g \in Oracles :
        /\ ~halted
        /\ pc = "idle"
        /\ top # NULL
        /\ out' = ""
        /\ Call(top, bufLen, g)

\* the caller has consumed the sink and calls again with the node returned
Resume ==
    \E bufLen \in Caps, g \in Oracles :
        /\ ~halted
        /\ pc = "suspended"
        /\ out' = out \o sink.buf
        /\ Call(cur, bufLen, g)

NextEmit == Emit \/ Resume

SpecEmit == InitEmit /\ [][NextEmit]_vars

\* the trees a caller builds after it has dropped an emission
AgainShapes ==
    StreamShapes
    \cup { Cont("array", NULL, 0, << Leaf("integer", NULL, 1) >>),
           Cont("object", NULL, 0,
                << Leaf("integer", 1, 1), Leaf("integer", 2, 2) >>) }

\* the caller drops the emission where it stands, suspended or finished,
\* resets the arena and builds a tree in it again; `left` is a static of
\* emit_aux and keeps the value the dropped emission left in it
Rebuild ==
    \E s \in AgainShapes :
        LET b == Build(jemi_reset(Size(s)), s) IN
        /\ ~halted
        /\ pc # "idle"
        /\ pool' = b.h.pool
        /\ freelist' = b.h.free
        /\ cap' = Size(s)
        /\ nalloc' = b.h.nalloc
        /\ last' = NoCall
        /\ copied' = NoCopy
        /\ sink' = EmptySink(0)
        /\ gen' = FreshGen
        /\ pc' = "idle"
        /\ cur' = NULL
        /\ top' = b.node
        /\ out' = ""
        /\ steps' = 0
        /\ att' = << >>
        /\ log' = << >>
        /\ rej' = FALSE
        /\ ref' = Whole(b.h.pool, b.node)
        /\ UNCHANGED << halted, left >>

NextAgain == Emit \/ Resume \/ Rebuild

SpecAgain == InitEmit /\ [][NextAgain]_vars

\* the caller can make a call of jemi_emit, and a call with the largest sink
\* changes the state: what ENABLED <<NextEmit>>_vars comes to
Callable == ~halted /\ pc \in {"idle", "suspended"}

\* the caller's loop does not stop calling while jemi_emit returns a node:
\* weak fairness of NextEmit, with its enabling condition written out
LoopFairness == []<>(~Callable) \/ []<><<NextEmit>>_vars

SpecEmitFair == InitEmit /\ [][NextEmit]_vars /\ LoopFairness

\* everything the caller has received so far
Output == out \o sink.buf


\* ---------------------------------------- emitting streams and long texts
\* a streaming array whose generator has run dry
DryStream(key, kid) == Cont("updateable", key, 2, << kid >>)

\* a streaming array whose generator hands over Batches elements
FedStream(key) ==
    Cont("updateable", key, 1, << Leaf("integer", NULL, 1) >>)

\* streaming array A whose elements, the pre-built one and the generated
\* ones, are the streaming array B
NestedStream(key, kid) ==
    Cont("updateable", key, 1, << DryStream(NULL, kid) >>)

\* two streaming arrays, emitted one after the other
StreamsInRow ==
    { Cont("array", NULL, 0,
           << DryStream(NULL, Leaf("integer", NULL, 1)), FedStream(NULL) >>),
      Cont("object", NULL, 0,
           << FedStream(1), DryStream(2, Leaf("integer", NULL, 1)) >>) }

StreamKids == { Leaf("integer", NULL, 1), Leaf("null", NULL, 0) }

StreamCases ==
    { DryStream(key, kid) : key \in KeyArgs, kid \in StreamKids }
    \cup { FedStream(key) : key \in KeyArgs }
    \cup { NestedStream(key, kid) : key \in KeyArgs, kid \in StreamKids }
    \cup StreamsInRow

\* keys and strings that fill the formatting buffers of emit_aux
LongTexts ==
    { Leaf("string", NULL, 6),
      Cont("object", NULL, 0, << Leaf("integer", 5, 1) >>),
      Cont("object", NULL, 0, << Leaf("string", 1, 3), Leaf("string", 5, 6) >>),
      Cont("array", 5, 0, << Leaf("string", NULL, 6), Leaf("null", NULL, 0) >>) }

CaseShapes == StreamCases \cup LongTexts

InitCases ==
    \E s \in CaseShapes :
        LET b == Build(jemi_reset(Size(s)), s) IN
        /\ pool = b.h.pool
        /\ freelist = b.h.free
        /\ cap = Size(s)
        /\ nalloc = b.h.nalloc
        /\ last = NoCall
        /\ copied = NoCopy
        /\ halted = FALSE
        /\ NotEmitting(b.node, Whole(b.h.pool, b.node))

SpecCases == InitCases /\ [][NextEmit]_vars

\* ------------------------------------------------------- copying built trees
CopyLeaves ==
    { Leaf("integer", 1, 1), Leaf("string", NULL, 3),
      Leaf("float", NULL, 1500000), Leaf("bool", NULL, 1) }

CopyHeads == { Cont("array", NULL, 0, << >>), Cont("object", 1, 0, << >>) }

CopyShapes == Shapes(CopyLeaves, CopyHeads, 2, CopyNodes)

InitCopy ==
    \E s \in CopyShapes :
        LET b == Build(jemi_reset(Size(s) + CopyFree), s) IN
        /\ pool = b.h.pool
        /\ freelist = b.h.free
        /\ cap = Size(s) + CopyFree
        /\ nalloc = b.h.nalloc
        /\ last = NoCall
        /\ copied = NoCopy
        /\ halted = FALSE
        /\ NotEmitting(b.node, "")

\* the caller's program: build a tree, copy one node of it, then set one scalar
\* of the original or of the clone
NextCopy ==
    \/ copied = NoCopy /\ Copy
    \/ last.creates /\ last.arg # NULL /\ FloatSet
    \/ last.creates /\ last.arg # NULL /\ IntegerSet
    \/ last.creates /\ last.arg # NULL /\ StringSet
    \/ last.creates /\ last.arg # NULL /\ BoolSet

SpecCopy == InitCopy /\ [][NextCopy]_vars

\* ------------------------------------------------------------ linking nodes
LinkPool == 3       \* slots of the arena the linked nodes come from

InitLink ==
    /\ pool = jemi_reset(LinkPool).pool
    /\ freelist = jemi_reset(LinkPool).free
    /\ cap = LinkPool
    /\ nalloc = 0
    /\ last = NoCall
    /\ copied = NoCopy
    /\ halted = FALSE
    /\ NotEmitting(NULL, "")

\* a caller that makes scalars, lists and containers and appends to containers
NextLink ==
    \/ Integer
    \/ List
    \/ Array
    \/ Object
    \/ ArrayAppend
    \/ ObjectAppend

SpecLink == InitLink /\ [][NextLink]_vars

\* ------------------------------------------------------------------ claims
\* C3: arena conservation. What jemi_available() returns is the pool size
\* of the last jemi_reset minus the number of successful allocations made
\* since (so it is the pool size right after the reset), and a node-creating
\* call made on an empty freelist returns no node and leaves it at 0.
C3_ArenaConservation ==
    /\ jemi_available(pool, freelist) = cap - nalloc
    /\ (last.creates /\ last.exhausted /\ ~halted) =>
           (last.node = NULL /\ jemi_available(pool, freelist) = 0)

\* capacity 2, two requests served, the third returns no node
C3_Witness ==
    /\ cap = 2
    /\ nalloc = 2
    /\ last.creates /\ last.exhausted /\ last.node = NULL
    /\ ~halted
    /\ jemi_available(pool, freelist) = 0

\* C4: exhaustion is propagated, never fatal. A node-creating call made on
\* an empty freelist returns no node, touches no member of the missing node,
\* does not stop the process and leaves the freelist and every existing node
\* as they were.
C4_ExhaustionPropagated ==
    [][ (last'.creates /\ last'.exhausted) =>
            /\ last'.node = NULL
            /\ ~last'.deref
            /\ ~halted'
            /\ pool' = pool
            /\ freelist' = freelist ]_vars

\* the last call was jemi_copy(X) / a setter on node X
IsCopy(call) == call.creates /\ call.arg # NULL
IsSet(call) == ~call.creates /\ call.arg # NULL

\* C8: copy independence. jemi_copy changes no field of a node that existed
\* before it, the nodes of the clone are none of the nodes of the original,
\* and a scalar setter applied to a node of the clone changes no node of the
\* original, and the other way round.
C8_CopyIndependence ==
    /\ [](copied.dst # NULL =>
            Reach(pool, copied.dst) \cap Reach(pool, copied.src) = {})
    /\ [][ /\ IsCopy(last') =>
                \A n \in Allocated(pool, freelist) : pool'[n] = pool[n]
           /\ (IsSet(last') /\ last'.arg \in Reach(pool, copied.dst)) =>
                \A n \in Reach(pool, copied.src) : pool'[n] = pool[n]
           /\ (IsSet(last') /\ last'.arg \in Reach(pool, copied.src)) =>
                \A n \in Reach(pool, copied.dst) : pool'[n] = pool[n] ]_vars

\* an integer was cloned with its value and the clone then set to another one
C8_Witness ==
    /\ copied.dst # NULL
    /\ IsSet(last) /\ last.arg = copied.dst
    /\ pool[copied.src].type = "JEMI_INTEGER"
    /\ pool[copied.dst].type = "JEMI_INTEGER"
    /\ pool[copied.dst].val # pool[copied.src].val
    /\ ~halted

\* jemi_copy(X) was called with as many slots free as X's chain has nodes
CopyFits(X) ==
    /\ IsCopy(last') /\ last'.arg = X
    /\ jemi_available(pool, freelist) >= Cardinality(Reach(pool, X))

\* C9 as the spec has it: jemi_copy(X) clones X and its descendants only. With
\* enough slots free it allocates one node for each node of X's subtree, none
\* for the siblings that follow X, and the clone returned has no sibling.
C9_CopyWithoutSiblings ==
    [][ \A X \in DOMAIN pool :
          CopyFits(X) =>
            /\ nalloc' - nalloc = Cardinality(Subtree(pool, X))
            /\ last'.node # NULL
            /\ pool'[last'.node].sibling = NULL ]_vars

\* C9, amended: jemi_copy(X) clones X, the siblings that follow X, and the
\* descendants of all of them. With enough slots free it allocates exactly
\* one node for each of these, and the clone returned has a sibling exactly
\* when X has one.
C9_CopyWithSiblings ==
    [][ \A X \in DOMAIN pool :
          CopyFits(X) =>
            /\ nalloc' - nalloc = Cardinality(Reach(pool, X))
            /\ last'.node # NULL
            /\ ~halted'
            /\ Cardinality(Reach(pool', last'.node))
                 = Cardinality(Reach(pool, X))
            /\ (pool'[last'.node].sibling = NULL) = (pool[X].sibling = NULL)
      ]_vars

\* a node with a following sibling was copied, and the clone has a sibling
C9_Witness ==
    /\ IsCopy(last) /\ ~last.exhausted /\ ~halted
    /\ last.node # NULL
    /\ pool[last.arg].sibling # NULL
    /\ pool[last.node].sibling # NULL
    /\ Cardinality(Reach(pool, last.node)) = Cardinality(Reach(pool, last.arg))

\* ---------------------------------------------------- claims on emission
Tree == Reach(pool, top)
Containers == { n \in Tree : IsContainer(pool[n].type) }
Streaming == \E n \in Tree : pool[n].update # NULL
Childless(n) == IsContainer(pool[n].type) /\ pool[n].val = NULL

RECURSIVE LogText(_, _)
\* the fragments committed, one after the other
LogText(l, i) == IF i > Len(l) THEN "" ELSE l[i].text \o LogText(l, i + 1)

\* where node n committed a fragment of one of the kinds
Entries(n, kinds) ==
    { i \in DOMAIN log : log[i].node = n /\ log[i].kind \in kinds }

EndsWithComma(text) == SubSeq(text, Len(text), Len(text)) = ","

\* the commas written after node n: comma fragments, and closing fragments
\* that carry one
CommasAfter(n) ==
    Cardinality({ i \in Entries(n, {"comma", "sep", "close"}) :
                    EndsWithComma(log[i].text) })

LastChild(n) == Last(Chain(pool, pool[n].val))

\* every node of the tree is of a kind that jemi.c has a constructor for
NoFloat == \A n \in Tree : pool[n].type # "JEMI_FLOAT"

\* C1: resumability equivalence. Once the emission has finished, the chunks
\* the caller took out of the sink, one after the other, are the text that one
\* jemi_emit call on the same tree writes to a sink that takes everything
\* (stated for the trees without JEMI_FLOAT nodes).
C1_ResumabilityEquivalence == (pc = "done" /\ NoFloat) => Output = ref

\* what an attempt counts as progress: the node's state, and for the
\* separator of a streaming array the call of its generator
Advanced(a) == IF a.kind = "sep" THEN a.gen1 # a.gen0 ELSE a.st1 # a.st0

AtomicAttempt(a) ==
    \/ a.ok /\ a.buf1 = a.buf0 \o a.frag /\ Advanced(a)
    \/ ~a.ok /\ a.buf1 = a.buf0 /\ a.full1 /\ a.st1 = a.st0 /\ a.gen1 = a.gen0

\* the call that follows retries attempt a before it commits anything else
Retries(attempts, a) ==
    \E j \in DOMAIN attempts :
        /\ attempts[j].node = a.node
        /\ attempts[j].kind = a.kind
        /\ attempts[j].frag = a.frag
        /\ \A k \in 1..(j - 1) : ~attempts[k].ok

\* C2: fragment atomicity. Every fragment attempt either writes the whole
\* fragment and advances the node's progress, or writes nothing, sets the
\* full flag and leaves the progress as it was; a rejected fragment leaves
\* the emission suspended at its node, and is the fragment attempted again
\* when the caller resumes (stated for the trees without JEMI_FLOAT nodes).
C2_FragmentAtomicity ==
    /\ [](NoFloat => \A i \in DOMAIN att : AtomicAttempt(att[i]))
    /\ [](NoFloat => \A i \in DOMAIN att :
            (~att[i].ok /\ ~halted) => (pc = "suspended" /\ cur = att[i].node))
    /\ [][ NoFloat => \A i \in DOMAIN att :
             (~att[i].ok /\ ~halted' /\ pc = "suspended")
               => Retries(att', att[i]) ]_vars

\* C5: a container without children emits its opening bracket and directly
\* after it its closing bracket, and the emission then goes on with its
\* sibling, else its parent, so that at the end they are done as well.
C5_EmptyContainer ==
    pc = "done" =>
      \A n \in Tree :
        Childless(n) =>
          /\ \E i \in Entries(n, {"open"}) :
               /\ i < Len(log)
               /\ log[i + 1].node = n /\ log[i + 1].kind = "close"
          /\ pool[n].state = "JEMI_NODE_USED"
          /\ pool[n].sibling # NULL =>
               pool[pool[n].sibling].state = "JEMI_NODE_USED"
          /\ pool[n].parent # NULL =>
               pool[pool[n].parent].state = "JEMI_NODE_USED"

\* the object with the integer members a = 1 and b = 2
IsExample ==
    /\ pool[top].type = "JEMI_OBJECT" /\ pool[top].key = NULL
    /\ Len(Chain(pool, pool[top].val)) = 2
    /\ \A i \in 1..2 :
         /\ pool[Chain(pool, pool[top].val)[i]].type = "JEMI_INTEGER"
         /\ pool[Chain(pool, pool[top].val)[i]].key = i
         /\ pool[Chain(pool, pool[top].val)[i]].val = i

\* the closing fragment of container n is committed once, with the bracket of
\* n's kind, directly after the last fragment of n's last child and after
\* every fragment of n's descendants
ClosedOnce(n) ==
    /\ Cardinality(Entries(n, {"close"})) = 1
    /\ \A i \in Entries(n, {"close"}) :
         /\ SubSeq(log[i].text, 1, 1)
              = (IF pool[n].type = "JEMI_ARRAY" THEN "]" ELSE "}")
         /\ i > 1
         /\ log[i - 1].node \in Subtree(pool, LastChild(n))
         /\ \A j \in DOMAIN log :
              log[j].node \in Subtree(pool, n) \ {n} => j < i

\* C6: separators and brackets. For a tree without streaming arrays whose
\* containers all have children, a complete emission writes one comma after
\* a node that has a following sibling and none after a node that has not
\* (a scalar in a comma fragment, a container in its closing fragment), and
\* closes every container once, with its bracket, after the last fragment of
\* its last child; the object with members a = 1 and b = 2 gives
\* {"a":1,"b":2}.
C6_SeparatorsAndBrackets ==
    (pc = "done" /\ ~Streaming /\ \A n \in Tree : ~Childless(n)) =>
      /\ Output = LogText(log, 1)
      /\ \A n \in Tree :
           /\ CommasAfter(n) = (IF pool[n].sibling # NULL THEN 1 ELSE 0)
           /\ IF IsContainer(pool[n].type)
              THEN Entries(n, {"comma"}) = {} /\ ClosedOnce(n)
              ELSE Entries(n, {"close"}) = {}
                   /\ Cardinality(Entries(n, {"comma"}))
                        = (IF pool[n].sibling # NULL THEN 1 ELSE 0)
      /\ IsExample => Output = "{\"a\":1,\"b\":2}"

\* the example object, emitted in several chunks
C6_Witness ==
    /\ pc = "done" /\ IsExample /\ rej
    /\ Output = "{\"a\":1,\"b\":2}"
    /\ Cardinality(Entries(top, {"close"})) = 1

\* C7 as the spec has it: with no streaming array and a sink that never
\* fills, the emit_aux calls of jemi_emit reach NULL within as many calls as
\* the tree has nodes.
C7_StepsWithinNodes ==
    (pc # "idle" /\ ~rej /\ ~Streaming) =>
        (pc = "done" /\ steps <= Cardinality(Tree))

\* C7, amended: with no streaming array and a sink that never fills, the
\* emit_aux calls of jemi_emit reach NULL within as many calls as the tree has
\* nodes and containers together (a container with children is stepped on
\* twice, to open it and to close it), which is less than twice the nodes.
C7_StepsWithinNodesAndContainers ==
    (pc # "idle" /\ ~rej /\ ~Streaming) =>
        /\ pc = "done"
        /\ steps <= Cardinality(Tree) + Cardinality(Containers)
        /\ steps < 2 * Cardinality(Tree) + 1

\* a tree with a container that took more calls than it has nodes
C7_Witness ==
    /\ pc = "done" /\ ~rej /\ ~Streaming
    /\ steps > Cardinality(Tree)
    /\ steps = Cardinality(Tree) + Cardinality(Containers)

\* the value fragments committed, in order
Values == SelectSeq(log, LAMBDA e : e.kind = "value")

\* C10: streaming array, single stream. For a streaming array (here the
\* root) with pre-built children and a generator that hands over one element
\* per call and reports none left with its last batch, a complete emission
\* calls the generator once per batch, writes every pre-built and generated
\* element once and in order with single commas between them, and writes the
\* closing bracket once, after the last batch.
C10_SingleStream ==
    (pc = "done" /\ pool[top].update # NULL) =>
      /\ gen[pool[top].update].calls = Batches
      /\ Len(Values) > Batches
      /\ \A i \in DOMAIN Values :
           Values[i].text =
             (IF i <= Len(Values) - Batches THEN Decimal(1)
              ELSE Decimal(FirstGenerated + i - (Len(Values) - Batches) - 1))
      /\ Cardinality({ i \in DOMAIN log : log[i].kind \in {"comma", "sep"} })
           = Len(Values) - 1
      /\ \A i \in DOMAIN log :
           (i < Len(log) /\ log[i].kind \in {"comma", "sep"})
             => log[i + 1].kind = "value"
      /\ Cardinality(Entries(top, {"close"})) = 1
      /\ log[Len(log)].kind = "close"
      /\ Output = LogText(log, 1)

\* C11: every jemi_emit call that returns has written one terminator to the
\* sink, and it is the last character the call wrote: nothing was stored
\* behind it and it ends the text of the call, when the call finished the
\* tree as well as when it suspended on a full sink.
C11_OneTerminator ==
    pc \in {"suspended", "done"} =>
        /\ sink.nul = 1
        /\ sink.after = 0
        /\ sink.end = Len(sink.buf)

\* a call that suspended on a full sink after it had written some text, with
\* its terminator behind the text
C11_Witness ==
    /\ pc = "suspended" /\ sink.full /\ sink.buf # ""
    /\ sink.nul = 1 /\ sink.end = Len(sink.buf)

\* C12: determinism. A tree emitted in one jemi_emit call to a sink of
\* unlimited capacity gives the text that the identical tree gives when it is
\* emitted, the same way, as the first thing the process does, whatever was
\* emitted or dropped before (stated for the trees without JEMI_FLOAT nodes).
C12_Determinism ==
    (pc = "done" /\ out = "" /\ ~rej /\ sink.bufLen = BufLenMax /\ NoFloat)
        => sink.buf = ref

\* C13: what jemi_emit returns. It returns NULL only when the emission is
\* finished, every node reachable from the root through children and
\* sibling links being JEMI_NODE_USED; when it returns a node, the sink's
\* full flag is set and that node is not JEMI_NODE_USED.
C13_ReturnValue ==
    /\ pc = "done" => \A n \in Tree : pool[n].state = "JEMI_NODE_USED"
    /\ pc = "suspended" =>
         (sink.full /\ pool[cur].state # "JEMI_NODE_USED")

\* the nodes that point at n: as their sibling, or as their first child
Referrers(n) ==
    { m \in Allocated(pool, freelist) :
        \/ pool[m].sibling = n
        \/ IsContainer(pool[m].type) /\ pool[m].val = n }

\* C14: parent links. After any sequence of jemi_array, jemi_object,
\* jemi_list and jemi_array_append / jemi_object_append of a sibling chain of
\* one or more nodes, every node on the children chain of a container has
\* that container as its parent, and no node is on two sibling chains.
C14_ParentLinks ==
    /\ \A X \in Allocated(pool, freelist) :
         IsContainer(pool[X].type) =>
           \A n \in SeqSet(Chain(pool, pool[X].val)) : pool[n].parent = X
    /\ \A n \in Allocated(pool, freelist) : Cardinality(Referrers(n)) <= 1

\* the generator of the streaming array that committed log entry e
GenOf(e) == pool[e.node].update

\* the generator call made after separator e reported none left and handed
\* over no new element / handed over a new element
NoneAndNothing(e) ==
    /\ e.gen[GenOf(e)].ret = 0
    /\ e.gen[GenOf(e)].handed = e.gen0[GenOf(e)].handed

Supplied(e) == e.gen[GenOf(e)].handed > e.gen0[GenOf(e)].handed

\* C15: streaming array, end of stream. In an emission without a rejected
\* fragment, after a generator call that reports none and supplies no new
\* element the automaton does not go into the children again and the comma
\* written before the call is not directly followed by the closing bracket
\* of the array; it goes into the children again only after a call that
\* supplied an element.
C15_EndOfStream ==
    ~rej =>
      \A i \in DOMAIN log :
        log[i].kind = "sep" =>
          /\ NoneAndNothing(log[i]) =>
               /\ log[i].into = NULL
               /\ i < Len(log) =>
                    ~(log[i + 1].node = log[i].node
                        /\ log[i + 1].kind = "close")
          /\ log[i].into # NULL => Supplied(log[i])

IsStream(n) == n # NULL /\ pool[n].update # NULL

\* log entry j opens streaming array B inside an element that streaming array
\* A generated, after A's generator has reported none
OpensAfterNone(j) ==
    /\ log[j].kind = "open"
    /\ IsStream(log[j].node)
    /\ IsStream(pool[log[j].node].parent)
    /\ log[j].gen[pool[pool[log[j].node].parent].update].handed > 0
    /\ log[j].gen[pool[pool[log[j].node].parent].update].ret = 0

\* the closing fragment of the array opened by log entry j
ClosesAfter(j) ==
    { i \in DOMAIN log :
        /\ i > j /\ log[i].node = log[j].node /\ log[i].kind = "close"
        /\ \A k \in (j + 1)..(i - 1) :
             ~(log[k].node = log[j].node /\ log[k].kind = "close") }

\* no streaming array is an element, or inside an element, of another one
OneAfterAnother ==
    \A a \in Tree, b \in Tree :
        (IsStream(a) /\ IsStream(b) /\ a # b) => b \notin Subtree(pool, a)

\* C16: the remaining-indicator `left` is shared by all streaming arrays. If
\* streaming array B is emitted inside an element generated by streaming
\* array A after A's generator has reported none, B's generator is not
\* called before B's closing bracket is emitted, and A's generator is called
\* again although its last call reported none. When streaming arrays are
\* emitted strictly one after another, `left` is back at -1 each time one of
\* them emits its closing bracket.
C16_SharedIndicator ==
    /\ \A j \in DOMAIN log :
         OpensAfterNone(j) =>
           /\ \A i \in ClosesAfter(j) :
                log[i].gen[pool[log[j].node].update].calls
                  = log[j].gen[pool[log[j].node].update].calls
           /\ pc = "done" =>
                gen[pool[pool[log[j].node].parent].update].calls
                  > log[j].gen[pool[pool[log[j].node].parent].update].calls
    /\ OneAfterAnother =>
         \A i \in DOMAIN log :
           (log[i].kind = "close" /\ IsStream(log[i].node)) => log[i].left = -1

\* C17: boolean literals. The value fragment of a JEMI_TRUE node is the
\* literal true and that of a JEMI_FALSE node is the literal false.
C17_BooleanLiterals ==
    \A i \in DOMAIN log :
        log[i].kind = "value" =>
            /\ pool[log[i].node].type = "JEMI_TRUE" => log[i].text = "true"
            /\ pool[log[i].node].type = "JEMI_FALSE" => log[i].text = "false"

RECURSIVE Replica(_, _, _, _)
\* the chain that starts at b is a fresh replica of the chain that starts at
\* a: node for node the same kind, key and scalar payload, progress
\* JEMI_NODE_UNUSED, the children replicas in the same order with the cloned
\* container as their parent
Replica(p, a, b, parent) ==
    IF a = NULL \/ b = NULL THEN a = b
    ELSE /\ p[b].type = p[a].type
         /\ p[b].key = p[a].key
         /\ p[b].state = "JEMI_NODE_UNUSED"
         /\ p[a].type \in {"JEMI_INTEGER", "JEMI_FLOAT", "JEMI_STRING"} =>
              (p[b].tag = p[a].tag /\ p[b].val = p[a].val)
         /\ p[b].parent = parent
         /\ IsContainer(p[a].type) => Replica(p, p[a].val, p[b].val, b)
         /\ Replica(p, p[a].sibling, p[b].sibling, parent)

FloatFree(p, X) == \A n \in Reach(p, X) : p[n].type # "JEMI_FLOAT"

\* C18: a clone is a fresh replica. With enough slots free, every node of
\* jemi_copy(X) is JEMI_NODE_UNUSED and has the kind, key and scalar payload
\* of the node it was cloned from, the children are in the same order and
\* have the cloned container as their parent, and the clone of a root emits
\* the text the root emits (stated for the trees without JEMI_FLOAT nodes).
C18_CloneIsReplica ==
    [][ \A X \in DOMAIN pool :
          (CopyFits(X) /\ FloatFree(pool, X)) =>
            /\ Replica(pool', X, last'.node, pool'[last'.node].parent)
            /\ X = top =>
                 Whole(pool', last'.node) = Whole(pool', X) ]_vars

FirstFits(attempts, snk) ==
    attempts # << >> /\ Len(attempts[1].frag) <= snk.bufLen - 1

C20_FullLengthRendering ==
    \A i \in DOMAIN log :
        /\ log[i].kind = "key" =>
             log[i].text = "\"" \o StrTab[pool[log[i].node].key] \o "\":"
        /\ (log[i].kind = "value"
              /\ pool[log[i].node].type = "JEMI_STRING") =>
             log[i].text = "\"" \o StrTab[pool[log[i].node].val] \o "\""

\* C21: each node kind is handled by one case of the automaton. Every
\* fragment attempted on a JEMI_FLOAT node is its key prefix, its decimal
\* value or its comma, in every progress state and also when the sink rejects
\* one of them; no value fragment is built from the payload read as a string,
\* and no call stops in that read.
C21_OneCasePerKind ==
    /\ \A i \in DOMAIN att :
         pool[att[i].node].type = "JEMI_FLOAT" =>
           /\ att[i].kind \in {"key", "value", "comma"}
           /\ att[i].kind = "value" =>
                att[i].frag = Snprintf(22, FloatText(pool[att[i].node].val))
    /\ ~halted

\* the node as jemi_alloc returned it has no sibling, parent or child link
Bare(rec) ==
    /\ rec.sibling = NULL
    /\ rec.parent = NULL
    /\ rec.tag \in {"zero", "children"} /\ rec.val = NULL

\* C22: allocation hands out fresh, exclusively owned nodes. Between two
\* resets no pool slot is returned by jemi_alloc more than once, a slot that
\* has been returned is not on the freelist, and every node returned has the
\* kind asked for, progress JEMI_NODE_UNUSED and no sibling, parent or child
\* link.
C22_FreshExclusiveNodes ==
    /\ \A i, j \in DOMAIN last.given :
         i # j => last.given[i].node # last.given[j].node
    /\ \A i \in DOMAIN last.given :
         /\ last.given[i].node \in DOMAIN pool
         /\ last.given[i].node \notin FreeSet(pool, freelist)
         /\ last.given[i].rec.type = last.given[i].type
         /\ last.given[i].rec.state = "JEMI_NODE_UNUSED"
         /\ Bare(last.given[i].rec)

\* the whole arena has been handed out, and a node that was returned bare
\* has been linked into a container since
C22_Witness ==
    /\ cap >= 2
    /\ freelist = NULL
    /\ Len(last.given) = cap
    /\ \E i \in DOMAIN last.given :
         /\ Bare(last.given[i].rec)
         /\ pool[last.given[i].node].parent # NULL

RECURSIVE Walk(_, _, _)
\* document order: a node, then its children, then the siblings after it
Walk(p, n, fuel) ==
    IF n = NULL \/ fuel = 0 THEN << >>
    ELSE << n >>
         \o (IF IsContainer(p[n].type) THEN Walk(p, p[n].val, fuel - 1)
             ELSE << >>)
         \o Walk(p, p[n].sibling, fuel - 1)

\* the nodes of the emitted tree in document order, and a node's place in it
DocOrder == Walk(pool, top, Cardinality(DOMAIN pool))
Place(order, n) == CHOOSE i \in DOMAIN order : order[i] = n

\* the strict ancestors of n: the containers whose subtree holds n
Ancestors(n) == { a \in Tree : a # n /\ n \in Subtree(pool, a) }

\* the ancestors of R are JEMI_CHILDREN_USED, the other nodes before R are
\* JEMI_NODE_USED, and R is not
Behind(order, R) ==
    /\ pool[R].state # "JEMI_NODE_USED"
    /\ \A a \in Ancestors(R) : pool[a].state = "JEMI_CHILDREN_USED"
    /\ \A n \in Tree \ Ancestors(R) :
         Place(order, n) < Place(order, R) =>
           pool[n].state = "JEMI_NODE_USED"

\* C23 as the claim has it: whenever jemi_emit suspends and returns R during
\* the emission of a tree without streaming arrays, every strict ancestor of
\* R is JEMI_CHILDREN_USED, every other node before R in document order is
\* JEMI_NODE_USED, every node after R in document order is JEMI_NODE_UNUSED,
\* and R is not JEMI_NODE_USED.
C23_SuspensionPosition ==
    (pc = "suspended" /\ ~Streaming) =>
        /\ Behind(DocOrder, cur)
        /\ \A n \in Tree :
             Place(DocOrder, n) > Place(DocOrder, cur) =>
               pool[n].state = "JEMI_NODE_UNUSED"

\* C23 amended: the nodes after R are JEMI_NODE_UNUSED except the descendants
\* of an R that waits for its closing bracket (R is JEMI_CHILDREN_USED), which
\* are all JEMI_NODE_USED.
C23_SuspensionPositionOutsideR ==
    (pc = "suspended" /\ ~Streaming) =>
        /\ Behind(DocOrder, cur)
        /\ \A n \in Tree :
             Place(DocOrder, n) > Place(DocOrder, cur) =>
               pool[n].state =
                 IF n \in Subtree(pool, cur)
                    /\ pool[cur].state = "JEMI_CHILDREN_USED"
                 THEN "JEMI_NODE_USED" ELSE "JEMI_NODE_UNUSED"

\* a suspension between two children, below the root: an ancestor, a sibling
\* behind and a sibling ahead
C23_Witness ==
    /\ pc = "suspended" /\ ~Streaming
    /\ Ancestors(cur) # {}
    /\ \E n \in Tree \ Ancestors(cur) :
         Place(DocOrder, n) < Place(DocOrder, cur)
    /\ \E n \in Tree : Place(DocOrder, n) > Place(DocOrder, cur)

\* ------------------------------------------------------- sinks of any size
\* the bufLen a caller may hand over: no room at all, room for the terminator
\* only, for one character, and the sizes of Caps
AnyCaps == {0, 1, 2} \cup Caps

\* the first call, on the root, with a sink of any size
EmitInto ==
    \E bufLen \in AnyCaps, g \in Oracles :
        /\ ~halted
        /\ pc = "idle"
        /\ top # NULL
        /\ out' = ""
        /\ Call(top, bufLen, g)

\* the caller has emptied the sink and calls again with the node returned
ResumeInto ==
    \E bufLen \in AnyCaps, g \in Oracles :
        /\ ~halted
        /\ pc = "suspended"
        /\ out' = out \o sink.buf
        /\ Call(cur, bufLen, g)

NextSinks == EmitInto \/ ResumeInto

\* the trees without a streaming array
PlainShapes ==
    Shapes(EmitLeaves, EmitHeads, 1, FlatNodes)
    \cup Shapes(NestLeaves, NestHeads, 2, NestNodes)

InitSinks ==
    \E s \in PlainShapes :
        LET b == Build(jemi_reset(Size(s)), s) IN
        /\ pool = b.h.pool
        /\ freelist = b.h.free
        /\ cap = Size(s)
        /\ nalloc = b.h.nalloc
        /\ last = NoCall
        /\ copied = NoCopy
        /\ halted = FALSE
        /\ NotEmitting(b.node, Whole(b.h.pool, b.node))

SpecSinks == InitSinks /\ [][NextSinks]_vars

\* C24: sink bound. The sink emptied before every call, the fragment bytes
\* committed to it within one chunk never exceed capacity - 1, the terminator
\* written at the end of the call lies within the capacity, and no byte is
\* written beyond the capacity.
C24_SinkBound ==
    pc \in {"suspended", "done"} =>
        /\ Len(sink.buf) <= sink.bufLen - 1
        /\ sink.nul = 1 /\ sink.end < sink.bufLen
        /\ Len(sink.buf) + sink.nul + sink.after <= sink.bufLen

=============================================================================
